---- MODULE Spec2Model ----
(***************************************************************************)
(* Liquid-glass displacement pipeline: the surface profiles, the 1-D       *)
(* refraction precomputation (calculateDisplacementMap), the three         *)
(* rasterizers (calculateDisplacementMap2, calculateRefractionSpecular,    *)
(* calculateMagnifyingDisplacementMap) and the memoised render of          *)
(* LiquidGlassFilter.                                                      *)
(*                                                                         *)
(* JavaScript numbers are modelled as binary floating point values with    *)
(* round-to-nearest-even, NaN and the two infinities.  The significand is  *)
(* 25 bits wide instead of 53 so that every intermediate result fits the   *)
(* integers of the model checker; the exponent is unbounded.  The sign of  *)
(* zero is not kept.                                                       *)
(***************************************************************************)
EXTENDS Integers, Sequences, FiniteSets, TLC

(***************************************************************************)
(* Numbers                                                                 *)
(***************************************************************************)
Two13 == 2^13
Two24 == 2^24
Two25 == 2^25

FZero == [k |-> "fin", s |-> 1, m |-> 0, e |-> 0]
NaN == [k |-> "nan", s |-> 1, m |-> 0, e |-> 0]
Inf(sgn) == [k |-> "inf", s |-> sgn, m |-> 0, e |-> 0]
Fin(sgn, m, e) == [k |-> "fin", s |-> sgn, m |-> m, e |-> e]

IsNaN(a) == a.k = "nan"
IsInf(a) == a.k = "inf"
IsFinite(a) == a.k = "fin"
IsZero(a) == a.k = "fin" /\ a.m = 0
IsNeg(a) == a.k # "nan" /\ a.s = -1 /\ ~IsZero(a)

\* the number of bits of n, 0 <= n < 2^31
BitLen4(n) == IF n < 4 THEN (IF n < 2 THEN n ELSE 2) ELSE (IF n < 8 THEN 3 ELSE 4)
BitLen8(n) == IF n < 16 THEN BitLen4(n) ELSE 4 + BitLen4(n \div 16)
BitLen16(n) == IF n < 256 THEN BitLen8(n) ELSE 8 + BitLen8(n \div 256)
BitLen(n) == IF n < 65536 THEN BitLen16(n) ELSE 16 + BitLen16(n \div 65536)

\* ties to even: q is the kept part, rem the part cut off, half the weight
\* of half a unit of q, st says that something was cut off below rem
RoundedUp(q, rem, half, st) ==
  IF rem > half \/ (rem = half /\ (st \/ q % 2 = 1)) THEN q + 1 ELSE q

\* a rounded significand that reached 2^25 moves to the next binade
Carried(sgn, q, e) == IF q = Two25 THEN Fin(sgn, Two24, e + 1) ELSE Fin(sgn, q, e)

\* n of L bits brought to 25 bits
RoundBits(sgn, n, e, st, L) ==
  IF L <= 25 THEN Fin(sgn, n * 2^(25 - L), e - (25 - L))
  ELSE Carried(sgn, RoundedUp(n \div 2^(L - 25), n % 2^(L - 25), 2^(L - 26), st),
               e + (L - 25))

\* s * (n + f) * 2^e rounded to 25 significant bits, ties to even; st says
\* that a non-zero fraction f < 1 was cut off below n (n then has > 25 bits).
Round(sgn, n, e, st) == IF n = 0 THEN FZero ELSE RoundBits(sgn, n, e, st, BitLen(n))

FromInt(i) == IF i < 0 THEN Round(-1, -i, 0, FALSE) ELSE Round(1, i, 0, FALSE)

Neg(a) == IF a.k = "nan" \/ IsZero(a) THEN a ELSE [a EXCEPT !.s = -a.s]
Abs(a) == IF a.k = "nan" THEN a ELSE [a EXCEPT !.s = 1]

\* the product of two 25-bit significands from their 13-bit limbs: hh, mid
\* and ll are the partial products of weight 2^26, 2^13 and 1
MulTop(sgn, e, hh, t, st) == Round(sgn, hh * 32 + t \div 256, e, (t % 256) # 0 \/ st)
MulSum(sgn, e, hh, mid, ll) ==
  MulTop(sgn, e, hh, mid + ll \div Two13, (ll % Two13) # 0)
MulLimbs(sgn, e, ah, al, bh, bl) == MulSum(sgn, e, ah * bh, ah * bl + al * bh, al * bl)

Mul(a, b) ==
  IF IsNaN(a) \/ IsNaN(b) THEN NaN
  ELSE IF IsInf(a) \/ IsInf(b)
    THEN IF IsZero(a) \/ IsZero(b) THEN NaN ELSE Inf(a.s * b.s)
  ELSE IF IsZero(a) \/ IsZero(b) THEN FZero
  ELSE MulLimbs(a.s * b.s, a.e + b.e + 21,
                a.m \div Two13, a.m % Two13, b.m \div Two13, b.m % Two13)

\* one step of long division: `bits` (a power of two) more quotient digits
DivStep(qr, d, bits) == << qr[1] * bits + (qr[2] * bits) \div d, (qr[2] * bits) % d >>

\* <<q, r>> with n * 2^27 = q * d + r and 0 <= r < d, for n, d below 2^25
LongDiv(n, d) ==
  DivStep(DivStep(DivStep(DivStep(DivStep(DivStep(<<n \div d, n % d>>,
    d, 32), d, 32), d, 32), d, 32), d, 32), d, 4)

DivRound(sgn, e, qr) == Round(sgn, qr[1], e, qr[2] # 0)

Div(a, b) ==
  IF IsNaN(a) \/ IsNaN(b) THEN NaN
  ELSE IF IsInf(a) THEN (IF IsInf(b) THEN NaN ELSE Inf(a.s * b.s))
  ELSE IF IsInf(b) THEN FZero
  ELSE IF IsZero(b) THEN (IF IsZero(a) THEN NaN ELSE Inf(a.s * b.s))
  ELSE IF IsZero(a) THEN FZero
  ELSE DivRound(a.s * b.s, a.e - b.e - 27, LongDiv(a.m, b.m))

\* |a| >= |b| for finite non-zero a, b
MagGe(a, b) == a.e > b.e \/ (a.e = b.e /\ a.m >= b.m)

\* q with the bits cut off below it kept as a sticky lowest bit
Sticky(q, rem) == IF rem # 0 /\ q % 2 = 0 THEN q + 1 ELSE q

\* the smaller operand (three guard bits appended) shifted right by d
Aligned(Bf, d) == IF d > 28 THEN 1 ELSE Sticky(Bf \div 2^d, Bf % 2^d)

AddAligned(sgn, same, A, B, e) == Round(sgn, IF same THEN A + B ELSE A - B, e, FALSE)

AddOrdered(a, b) ==  \* finite, non-zero, |a| >= |b|
  AddAligned(a.s, a.s = b.s, a.m * 8, Aligned(b.m * 8, a.e - b.e), a.e - 3)

Add(a, b) ==
  IF IsNaN(a) \/ IsNaN(b) THEN NaN
  ELSE IF IsInf(a) THEN (IF IsInf(b) /\ a.s # b.s THEN NaN ELSE a)
  ELSE IF IsInf(b) THEN b
  ELSE IF IsZero(a) THEN b
  ELSE IF IsZero(b) THEN a
  ELSE IF MagGe(a, b) THEN AddOrdered(a, b) ELSE AddOrdered(b, a)

Sub(a, b) == Add(a, Neg(b))

RECURSIVE NewtonFrom(_, _, _)
\* the integer square root of M, approached from x above it; y is the next
\* iterate
NewtonFrom(M, x, y) == IF y >= x THEN x ELSE NewtonFrom(M, y, (y + M \div y) \div 2)
NewtonRoot(M, x) == NewtonFrom(M, x, (x + M \div x) \div 2)

RECURSIVE RootLowFrom(_, _, _, _)
\* the largest d <= d0 with (r1 * 2^14 + d)^2 <= M * 2^28, where r1 is the
\* integer square root of M and rem1 = M - r1^2; the result is <<d, rest>>
\* with rest = M * 2^28 - (r1 * 2^14 + d)^2
RootLowFrom(r1, rem1, d, rest) ==
  IF rest >= 0 THEN <<d, rest>>
  ELSE RootLowFrom(r1, rem1, d - 1,
                   (rem1 * Two13 - r1 * (d - 1)) * (Two13 * 4) - (d - 1) * (d - 1))
RootLow(r1, rem1, d) ==
  RootLowFrom(r1, rem1, d, (rem1 * Two13 - r1 * d) * (Two13 * 4) - d * d)

RootGuess(d0) == IF d0 >= 2 * Two13 THEN 2 * Two13 - 1 ELSE d0
RootJoin(r1, low) == << r1 * (2 * Two13) + low[1], low[2] >>
RootRest(r1, rem1) ==
  RootJoin(r1, RootLow(r1, rem1, RootGuess((rem1 * Two13) \div r1)))
RootOf(M, r1) == RootRest(r1, M - r1 * r1)

\* <<root, rest>> with root = the integer square root of M * 2^28, for M in
\* 2^24 .. 2^26 - 1
SqrtWide(M) == RootOf(M, NewtonRoot(M, Two13))

SqrtRound(rr, E) == Round(1, rr[1], (E \div 2) - 14, rr[2] # 0)

Sqrt(a) ==
  IF IsNaN(a) THEN NaN
  ELSE IF IsZero(a) THEN FZero
  ELSE IF a.s = -1 THEN NaN
  ELSE IF IsInf(a) THEN a
  ELSE IF a.e % 2 = 1 THEN SqrtRound(SqrtWide(2 * a.m), a.e - 1)
  ELSE SqrtRound(SqrtWide(a.m), a.e)

Eq(a, b) == ~IsNaN(a) /\ ~IsNaN(b) /\ a = b
Lt(a, b) == ~IsNaN(a) /\ ~IsNaN(b) /\ a # b /\ IsNeg(Sub(a, b))
Le(a, b) == Lt(a, b) \/ Eq(a, b)
Ge(a, b) == Le(b, a)
FMax(a, b) == IF IsNaN(a) \/ IsNaN(b) THEN NaN ELSE IF Lt(a, b) THEN b ELSE a

\* x | 0 of values below 2^31 : NaN and the infinities give 0, the rest is
\* cut towards zero
ToInt32(a) ==
  IF ~IsFinite(a) \/ IsZero(a) THEN 0
  ELSE IF a.e >= 0 THEN a.s * a.m * 2^a.e
  ELSE IF -a.e >= 25 THEN 0
  ELSE a.s * (a.m \div 2^(-a.e))

\* the conversion of a store into a Uint8ClampedArray: clamped to 0..255,
\* rounded to the nearest integer, ties to even; NaN gives 0
ToUint8Clamped(a) ==
  IF IsNaN(a) THEN 0
  ELSE IF IsNeg(a) \/ IsZero(a) THEN 0
  ELSE IF IsInf(a) \/ Ge(a, FromInt(255)) THEN 255
  ELSE IF -a.e >= 27 THEN 0
  ELSE RoundedUp(a.m \div 2^(-a.e), a.m % 2^(-a.e), 2^(-a.e - 1), FALSE)

One == FromInt(1)
Ratio(p, q) == Div(FromInt(p), FromInt(q))

(***************************************************************************)
(* Surface profiles (surfaceEquations)                                     *)
(***************************************************************************)
\* x ** n for the small whole n the profiles use, by repeated multiplication,
\* and (...) ** (1 / 4) as the square root of the square root
Sq(a) == Mul(a, a)
Pow3(a) == Mul(Sq(a), a)
Pow4(a) == Sq(Sq(a))
Pow5(a) == Mul(Pow4(a), a)
Root4(a) == Sqrt(Sqrt(a))

\* Math.sqrt(1 - (1 - x) ** 2)
CONVEX_CIRCLE(x) == Sqrt(Sub(One, Sq(Sub(One, x))))

\* (1 - (1 - x) ** 4) ** (1 / 4)
CONVEX(x) == Root4(Sub(One, Pow4(Sub(One, x))))

\* 1 - CONVEX_CIRCLE.fn(x)
CONCAVE(x) == Sub(One, CONVEX_CIRCLE(x))

smootherstep(x) ==
  Add(Sub(Mul(FromInt(6), Pow5(x)), Mul(FromInt(15), Pow4(x))),
      Mul(FromInt(10), Pow3(x)))

\* convex * (1 - smootherstep) + concave * smootherstep
LipMix(convex, concave, w) == Add(Mul(convex, Sub(One, w)), Mul(concave, w))

\* a variant of LIP that blends the plain concave profile
LipNoOffset(x) == LipMix(CONVEX(Mul(x, FromInt(2))), CONCAVE(x), smootherstep(x))

LIP(x) == LipMix(CONVEX(Mul(x, FromInt(2))), Add(CONCAVE(x), Ratio(1, 10)), smootherstep(x))

\* the profiles a caller passes as bezelHeightFn; "identity" is the default
\* parameter (x) => x of calculateDisplacementMap
Profiles == {"identity", "CONVEX_CIRCLE", "CONVEX", "CONCAVE", "LIP"}

bezelHeightFn(name, x) ==
  CASE name = "identity"      -> x
    [] name = "CONVEX_CIRCLE" -> CONVEX_CIRCLE(x)
    [] name = "CONVEX"        -> CONVEX(x)
    [] name = "CONCAVE"       -> CONCAVE(x)
    [] name = "LIP"           -> LIP(x)

(***************************************************************************)
(* calculateDisplacementMap: the 1-D refraction precomputation             *)
(***************************************************************************)
\* Snell refraction of the vertical ray; <<>> is null (total internal
\* reflection).  dot is normalY, k = 1 - eta * eta * (1 - dot * dot)
refractAlong(eta, normalX, normalY, f) ==
  << Mul(Neg(f), normalX), Sub(eta, Mul(f, normalY)) >>

refractWith(eta, normalX, normalY, k) ==
  IF Lt(k, FZero) THEN <<>>
  ELSE refractAlong(eta, normalX, normalY, Add(Mul(eta, normalY), Sqrt(k)))

refract(eta, normalX, normalY) ==
  refractWith(eta, normalX, normalY,
              Sub(One, Mul(Mul(eta, eta), Sub(One, Mul(normalY, normalY)))))

\* a variant of SampleX that spreads the samples over [0, 1] inclusive
SampleXInclusive(i, samples) == Div(FromInt(i), FromInt(samples - 1))

\* const x = i / samples
SampleX(i, samples) == Div(FromInt(i), FromInt(samples))

\* const dx = x < 1 ? 0.0001 : -0.0001
SampleDx(x) == IF Lt(x, One) THEN Ratio(1, 10000) ELSE Neg(Ratio(1, 10000))

surfaceMagnitude(derivative) == Sqrt(Add(Mul(derivative, derivative), One))

\* a variant of SampleResult with the components of the refracted ray swapped
SampleResultSwapped(x, x2, refracted, remainingHeight) ==
  [ value |-> IF refracted = <<>> THEN FZero
              ELSE Mul(refracted[2], Div(remainingHeight, refracted[1])),
    x  |-> x,
    x2 |-> x2,
    ry |-> IF refracted = <<>> THEN <<>> ELSE <<refracted[2]>> ]

\* the value the callback returns, with the points x and x2 = x + dx at which
\* it called bezelHeightFn and the y component of the refracted ray
SampleResult(x, x2, refracted, remainingHeight) ==
  [ value |-> IF refracted = <<>> THEN FZero
              ELSE Mul(refracted[1], Div(remainingHeight, refracted[2])),
    x  |-> x,
    x2 |-> x2,
    ry |-> IF refracted = <<>> THEN <<>> ELSE <<refracted[2]>> ]

SampleRefracted(glassThickness, bezelWidth, eta, x, x2, y, derivative, magnitude) ==
  SampleResult(x, x2,
               refract(eta, Div(Neg(derivative), magnitude), Div(FromInt(-1), magnitude)),
               Add(Mul(y, bezelWidth), glassThickness))

SampleSlope(glassThickness, bezelWidth, eta, x, x2, y, derivative) ==
  SampleRefracted(glassThickness, bezelWidth, eta, x, x2, y, derivative,
                  surfaceMagnitude(derivative))

SampleHeights(glassThickness, bezelWidth, eta, x, x2, dx, y, y2) ==
  SampleSlope(glassThickness, bezelWidth, eta, x, x2, y, Div(Sub(y2, y), dx))

SampleProbe(glassThickness, bezelWidth, fn, eta, x, x2, dx) ==
  SampleHeights(glassThickness, bezelWidth, eta, x, x2, dx,
                bezelHeightFn(fn, x), bezelHeightFn(fn, x2))

SampleStep(glassThickness, bezelWidth, fn, eta, x, dx) ==
  SampleProbe(glassThickness, bezelWidth, fn, eta, x, Add(x, dx), dx)

SampleFrom(glassThickness, bezelWidth, fn, eta, x) ==
  SampleStep(glassThickness, bezelWidth, fn, eta, x, SampleDx(x))

\* the callback of Array.from for index i
SampleAt(glassThickness, bezelWidth, fn, refractiveIndex, samples, i) ==
  SampleFrom(glassThickness, bezelWidth, fn, Div(One, refractiveIndex),
             SampleX(i, samples))

\* the callback's results for the whole of Array.from({ length: samples }, ...)
Samples(glassThickness, bezelWidth, fn, refractiveIndex, samples) ==
  [n \in 1..samples |->
     SampleAt(glassThickness, bezelWidth, fn, refractiveIndex, samples, n - 1)]

SampleValues(all) == [n \in DOMAIN all |-> all[n].value]

calculateDisplacementMap(glassThickness, bezelWidth, fn, refractiveIndex, samples) ==
  SampleValues(Samples(glassThickness, bezelWidth, fn, refractiveIndex, samples))

RECURSIVE MaxAbsIn(_, _, _)
\* the largest |map[n]| for n in lo..hi-1, -Infinity when there is none
MaxAbsIn(map, lo, hi) ==
  IF hi <= lo THEN Inf(-1)
  ELSE IF hi = lo + 1 THEN FMax(Inf(-1), Abs(map[lo]))
  ELSE LET mid == (lo + hi) \div 2
       IN FMax(MaxAbsIn(map, lo, mid), MaxAbsIn(map, mid, hi))

\* Math.max(...map.map((v) => Math.abs(v))); -Infinity for the empty array
MaxAbs(map) == MaxAbsIn(map, 1, Len(map) + 1)

(***************************************************************************)
(* Raster buffers                                                          *)
(***************************************************************************)
\* An ImageData: `fill` is the pixel every 32-bit word of data.buffer holds
\* after the initial fill, `w` the bytes stored into data afterwards: per
\* row of the buffer that was stored into, the bytes by byte index.
createImageData(width, height) ==
  [width |-> width, height |-> height, fill |-> <<0, 0, 0, 0>>, w |-> <<>>]

\* new Uint32Array(imageData.data.buffer).fill(word): word is given by its
\* four bytes, most significant first; memory holds the least significant
\* byte first
fillUint32(img, word) ==
  [img EXCEPT !.fill = <<word[4], word[3], word[2], word[1]>>, !.w = <<>>]

\* imageData.data[j]
ByteAt(img, j) ==
  IF (j \div (img.width * 4)) \in DOMAIN img.w
     /\ j \in DOMAIN img.w[j \div (img.width * 4)]
  THEN img.w[j \div (img.width * 4)][j]
  ELSE img.fill[(j % 4) + 1]

PixelAt(img, x, y) ==
  LET p == (y * img.width + x) * 4
  IN <<ByteAt(img, p), ByteAt(img, p + 1), ByteAt(img, p + 2), ByteAt(img, p + 3)>>

\* later stores a over earlier stores b
Override(a, b) ==
  [j \in (DOMAIN a) \cup (DOMAIN b) |-> IF j \in DOMAIN a THEN a[j] ELSE b[j]]

\* stores by byte index, grouped by the row of the buffer they fall into
ByRow(stores, rowBytes) ==
  [r \in {j \div rowBytes : j \in DOMAIN stores} |->
     [j \in {k \in DOMAIN stores : k \div rowBytes = r} |-> stores[j]]]

\* later stores a over earlier stores b, both grouped by row
OverrideRows(a, b) ==
  [r \in (DOMAIN a) \cup (DOMAIN b) |->
     IF r \notin DOMAIN a THEN b[r]
     ELSE IF r \notin DOMAIN b THEN a[r]
     ELSE Override(a[r], b[r])]

\* data[idx] = v[1]; data[idx + 1] = v[2]; data[idx + 2] = v[3];
\* data[idx + 3] = v[4] : a store outside the array is dropped
Stores(idx, v, size) ==
  [j \in {idx + c : c \in 0..3} \cap (0..(size - 1)) |-> ToUint8Clamped(v[j - idx + 1])]

\* the stores of one pass of a loop body; none when the body was skipped
\* (v = <<>>)
StoresIf(idx, v, size) == IF v = <<>> THEN <<>> ELSE Stores(idx, v, size)

\* dpr ?? (typeof window !== "undefined" ? (window.devicePixelRatio ?? 1) : 1)
\* an absent value is <<>>, a present one <<d>>
hostDevicePixelRatio(win) == IF win = <<>> THEN 1 ELSE win[1]
resolveDevicePixelRatio(dpr, win) ==
  IF dpr # <<>> THEN dpr[1] ELSE hostDevicePixelRatio(win)

(***************************************************************************)
(* calculateDisplacementMap2: the bezel displacement rasterizer            *)
(***************************************************************************)
\* a variant of the displacement fill: 0x00000000, the buffer as
\* createImageData returns it
DisplacementUnfilled == <<0, 0, 0, 0>>

\* 0xff008080
DisplacementNeutral == <<255, 0, 128, 128>>

DisplacementScaled(c, devicePixelRatio) ==
  LET bufferWidth   == c.canvasWidth * devicePixelRatio
      bufferHeight  == c.canvasHeight * devicePixelRatio
      radius_       == c.radius * devicePixelRatio
      bezel         == c.bezelWidth * devicePixelRatio
      objectWidth_  == c.objectWidth * devicePixelRatio
      objectHeight_ == c.objectHeight * devicePixelRatio
  IN [ devicePixelRatio |-> devicePixelRatio,
       bufferWidth |-> bufferWidth, bufferHeight |-> bufferHeight,
       radius_ |-> radius_, bezel |-> bezel,
       radiusSquared |-> radius_ * radius_,
       radiusPlusOneSquared |-> (radius_ + 1) * (radius_ + 1),
       radiusMinusBezelSquared |-> (radius_ - bezel) * (radius_ - bezel),
       objectWidth_ |-> objectWidth_, objectHeight_ |-> objectHeight_,
       widthBetweenRadiuses |-> objectWidth_ - radius_ * 2,
       heightBetweenRadiuses |-> objectHeight_ - radius_ * 2,
       \* twice objectX and objectY, which are halves of integers
       objectX2 |-> bufferWidth - objectWidth_,
       objectY2 |-> bufferHeight - objectHeight_ ]

DisplacementGeometry(c, win) ==
  DisplacementScaled(c, resolveDevicePixelRatio(c.dpr, win))

\* ((objectY + y1) * bufferWidth + objectX + x1) * 4
DisplacementIdx(g, x1, y1) ==
  ((g.objectY2 + 2 * y1) * g.bufferWidth + g.objectX2 + 2 * x1) * 2

\* the offset of a pixel from the centre of its corner, one axis
CornerOffset(p, radius_, size_, between) ==
  LET isOnNearSide == p < radius_
      isOnFarSide  == p >= size_ - radius_
  IN IF isOnNearSide THEN p - radius_
     ELSE IF isOnFarSide THEN p - radius_ - between
     ELSE 0

isInBezel(distanceToCenterSquared, outerSquared, innerSquared) ==
  distanceToCenterSquared <= outerSquared /\ distanceToCenterSquared >= innerSquared

\* the anti-alias ramp over the outer pad
bezelOpacity(distanceToCenterSquared, radiusSquared, outerSquared) ==
  IF distanceToCenterSquared < radiusSquared THEN One
  ELSE Sub(One,
           Div(Sub(Sqrt(FromInt(distanceToCenterSquared)), Sqrt(FromInt(radiusSquared))),
               Sub(Sqrt(FromInt(outerSquared)), Sqrt(FromInt(radiusSquared)))))

\* ((distanceFromSide / bezel) * precomputedDisplacementMap.length) | 0
bezelIndex(distanceFromSide, bezel, length) ==
  ToInt32(Mul(Div(distanceFromSide, FromInt(bezel)), FromInt(length)))

\* precomputedDisplacementMap[bezelIndex] ?? 0
sampleLookup(map, index) ==
  IF index >= 0 /\ index < Len(map) THEN map[index + 1] ELSE FZero

\* 128 + dX * 127 * opacity, 128 + dY * 127 * opacity, 0, 255
DisplacementChannels(dX, dY, opacity) ==
  << Add(FromInt(128), Mul(Mul(dX, FromInt(127)), opacity)),
     Add(FromInt(128), Mul(Mul(dY, FromInt(127)), opacity)),
     FZero,
     FromInt(255) >>

DisplacementVector(c, opacity, cos, sin, distance) ==
  DisplacementChannels(Div(Mul(Neg(cos), distance), c.maximumDisplacement),
                       Div(Mul(Neg(sin), distance), c.maximumDisplacement),
                       opacity)

DisplacementPolar(c, g, x, y, opacity, distanceFromCenter) ==
  DisplacementVector(c, opacity,
    Div(FromInt(x), distanceFromCenter),
    Div(FromInt(y), distanceFromCenter),
    sampleLookup(c.precomputedDisplacementMap,
                 bezelIndex(Sub(FromInt(g.radius_), distanceFromCenter), g.bezel,
                            Len(c.precomputedDisplacementMap))))

DisplacementInBand(c, g, x, y, distanceToCenterSquared) ==
  IF ~isInBezel(distanceToCenterSquared, g.radiusPlusOneSquared,
                g.radiusMinusBezelSquared)
  THEN <<>>
  ELSE DisplacementPolar(c, g, x, y,
         bezelOpacity(distanceToCenterSquared, g.radiusSquared, g.radiusPlusOneSquared),
         Sqrt(FromInt(distanceToCenterSquared)))

DisplacementAt(c, g, x, y) == DisplacementInBand(c, g, x, y, x * x + y * y)

\* a variant of DisplacementValues that leaves every pixel outside the four
\* corner regions alone
DisplacementValuesCornersOnly(c, g, x1, y1) ==
  IF CornerOffset(x1, g.radius_, g.objectWidth_, g.widthBetweenRadiuses) = 0
     \/ CornerOffset(y1, g.radius_, g.objectHeight_, g.heightBetweenRadiuses) = 0
  THEN <<>>
  ELSE DisplacementAt(c, g,
         CornerOffset(x1, g.radius_, g.objectWidth_, g.widthBetweenRadiuses),
         CornerOffset(y1, g.radius_, g.objectHeight_, g.heightBetweenRadiuses))

\* the four channel values the loop body stores for pixel (x1, y1), before
\* their conversion to bytes; <<>> when the pixel is not in the bezel
DisplacementValues(c, g, x1, y1) ==
  DisplacementAt(c, g,
    CornerOffset(x1, g.radius_, g.objectWidth_, g.widthBetweenRadiuses),
    CornerOffset(y1, g.radius_, g.objectHeight_, g.heightBetweenRadiuses))

\* the stores of the loop body for pixel (x1, y1)
DisplacementPixel(c, g, x1, y1) ==
  StoresIf(DisplacementIdx(g, x1, y1), DisplacementValues(c, g, x1, y1),
           g.bufferWidth * g.bufferHeight * 4)

RECURSIVE DisplacementColumns(_, _, _, _, _)
\* the stores of the inner loop for x1 in lo..hi-1, in the loop's order
DisplacementColumns(c, g, y1, lo, hi) ==
  IF hi <= lo THEN <<>>
  ELSE IF hi = lo + 1 THEN DisplacementPixel(c, g, lo, y1)
  ELSE LET mid == (lo + hi) \div 2
       IN Override(DisplacementColumns(c, g, y1, mid, hi),
                   DisplacementColumns(c, g, y1, lo, mid))

RECURSIVE DisplacementRows(_, _, _, _)
\* the stores of the outer loop for y1 in lo..hi-1, in the loop's order
DisplacementRows(c, g, lo, hi) ==
  IF hi <= lo THEN <<>>
  ELSE IF hi = lo + 1 THEN ByRow(DisplacementColumns(c, g, lo, 0, g.objectWidth_), g.bufferWidth * 4)
  ELSE LET mid == (lo + hi) \div 2
       IN OverrideRows(DisplacementRows(c, g, mid, hi), DisplacementRows(c, g, lo, mid))

DisplacementRaster(c, g) ==
  [fillUint32(createImageData(g.bufferWidth, g.bufferHeight), DisplacementNeutral)
     EXCEPT !.w = DisplacementRows(c, g, 0, g.objectHeight_)]

calculateDisplacementMap2(c, win) == DisplacementRaster(c, DisplacementGeometry(c, win))

(***************************************************************************)
(* calculateRefractionSpecular: the rim-light rasterizer                   *)
(***************************************************************************)
\* a variant of the specular fill: 0xff000000, opaque black
SpecularOpaque == <<255, 0, 0, 0>>

\* 0x00000000
SpecularNeutral == <<0, 0, 0, 0>>

\* [Math.cos(specularAngle), Math.sin(specularAngle)] for the angles the
\* model passes; "default" is the default parameter Math.PI / 3
SpecularAngles == {"default", "zero"}
specular_vector(specularAngle) ==
  IF specularAngle = "default"
  THEN <<Ratio(1, 2), Div(Sqrt(FromInt(3)), FromInt(2))>>
  ELSE <<One, FZero>>

SpecularScaled(c, devicePixelRatio) ==
  LET bufferWidth  == c.objectWidth * devicePixelRatio
      bufferHeight == c.objectHeight * devicePixelRatio
      radius_      == c.radius * devicePixelRatio
      bezel_       == c.bezelWidth * devicePixelRatio
  IN [ devicePixelRatio |-> devicePixelRatio,
       bufferWidth |-> bufferWidth, bufferHeight |-> bufferHeight,
       radius_ |-> radius_, bezel_ |-> bezel_,
       radiusSquared |-> radius_ * radius_,
       radiusPlusOneSquared |->
         (radius_ + devicePixelRatio) * (radius_ + devicePixelRatio),
       radiusMinusBezelSquared |-> (radius_ - bezel_) * (radius_ - bezel_),
       specular_vector |-> specular_vector(c.specularAngle),
       widthBetweenRadiuses |-> bufferWidth - radius_ * 2,
       heightBetweenRadiuses |-> bufferHeight - radius_ * 2 ]

SpecularGeometry(c, win) == SpecularScaled(c, resolveDevicePixelRatio(c.dpr, win))

\* a variant of specularCoefficient without the falloff term
specularCoefficientNoFalloff(dotProduct, distanceFromSide, devicePixelRatio) ==
  dotProduct

\* dotProduct * Math.sqrt(1 - (1 - distanceFromSide / (1 * devicePixelRatio)) ** 2)
specularCoefficient(dotProduct, distanceFromSide, devicePixelRatio) ==
  Mul(dotProduct,
      Sqrt(Sub(One, Sq(Sub(One, Div(distanceFromSide,
                                    Mul(One, FromInt(devicePixelRatio))))))))

\* color = 255 * coefficient in the three colour channels,
\* finalOpacity = color * coefficient * opacity in alpha
SpecularChannels(color, coefficient, opacity) ==
  <<color, color, color, Mul(Mul(color, coefficient), opacity)>>

SpecularShade(coefficient, opacity) ==
  SpecularChannels(Mul(FromInt(255), coefficient), coefficient, opacity)

SpecularDot(g, opacity, distanceFromSide, cos, sin) ==
  SpecularShade(
    specularCoefficient(Abs(Add(Mul(cos, g.specular_vector[1]),
                                Mul(sin, g.specular_vector[2]))),
                        distanceFromSide, g.devicePixelRatio),
    opacity)

SpecularPolar(g, x, y, opacity, distanceFromCenter) ==
  SpecularDot(g, opacity, Sub(FromInt(g.radius_), distanceFromCenter),
              Div(FromInt(x), distanceFromCenter),
              Div(FromInt(-y), distanceFromCenter))

SpecularInBand(g, x, y, distanceToCenterSquared) ==
  IF ~isInBezel(distanceToCenterSquared, g.radiusPlusOneSquared,
                g.radiusMinusBezelSquared)
  THEN <<>>
  ELSE SpecularPolar(g, x, y,
         bezelOpacity(distanceToCenterSquared, g.radiusSquared, g.radiusPlusOneSquared),
         Sqrt(FromInt(distanceToCenterSquared)))

SpecularAt(g, x, y) == SpecularInBand(g, x, y, x * x + y * y)

\* the four channel values the loop body stores for pixel (x1, y1); <<>>
\* when the pixel is not in the bezel
SpecularValues(c, g, x1, y1) ==
  SpecularAt(g,
    CornerOffset(x1, g.radius_, g.bufferWidth, g.widthBetweenRadiuses),
    CornerOffset(y1, g.radius_, g.bufferHeight, g.heightBetweenRadiuses))

SpecularPixel(c, g, x1, y1) ==
  StoresIf((y1 * g.bufferWidth + x1) * 4, SpecularValues(c, g, x1, y1),
           g.bufferWidth * g.bufferHeight * 4)

RECURSIVE SpecularColumns(_, _, _, _, _)
SpecularColumns(c, g, y1, lo, hi) ==
  IF hi <= lo THEN <<>>
  ELSE IF hi = lo + 1 THEN SpecularPixel(c, g, lo, y1)
  ELSE LET mid == (lo + hi) \div 2
       IN Override(SpecularColumns(c, g, y1, mid, hi),
                   SpecularColumns(c, g, y1, lo, mid))

RECURSIVE SpecularRows(_, _, _, _)
SpecularRows(c, g, lo, hi) ==
  IF hi <= lo THEN <<>>
  ELSE IF hi = lo + 1
    THEN ByRow(SpecularColumns(c, g, lo, 0, g.bufferWidth), g.bufferWidth * 4)
  ELSE LET mid == (lo + hi) \div 2
       IN OverrideRows(SpecularRows(c, g, mid, hi), SpecularRows(c, g, lo, mid))

SpecularRaster(c, g) ==
  [fillUint32(createImageData(g.bufferWidth, g.bufferHeight), SpecularNeutral)
     EXCEPT !.w = SpecularRows(c, g, 0, g.bufferHeight)]

calculateRefractionSpecular(c, win) == SpecularRaster(c, SpecularGeometry(c, win))

(***************************************************************************)
(* calculateMagnifyingDisplacementMap: the magnification rasterizer        *)
(***************************************************************************)
\* the function has no dpr parameter: it always reads the host's ratio
MagnifyingBuffer(bufferWidth, bufferHeight, devicePixelRatio) ==
  [ devicePixelRatio |-> devicePixelRatio,
    bufferWidth |-> bufferWidth, bufferHeight |-> bufferHeight,
    ratio |-> FMax(Div(FromInt(bufferWidth), FromInt(2)),
                   Div(FromInt(bufferHeight), FromInt(2))) ]

MagnifyingGeometry(c, win) ==
  MagnifyingBuffer(c.canvasWidth * hostDevicePixelRatio(win),
                   c.canvasHeight * hostDevicePixelRatio(win),
                   hostDevicePixelRatio(win))

\* a variant of MagnifyingChannel with the sign of the offset flipped
MagnifyingChannelAdded(p, size, ratio) ==
  Add(FromInt(128),
      Mul(Div(Sub(FromInt(p), Div(FromInt(size), FromInt(2))), ratio), FromInt(127)))

\* 128 - ((p - size / 2) / ratio) * 127
MagnifyingChannel(p, size, ratio) ==
  Sub(FromInt(128),
      Mul(Div(Sub(FromInt(p), Div(FromInt(size), FromInt(2))), ratio), FromInt(127)))

MagnifyingPixel(g, x1, y1) ==
  Stores((y1 * g.bufferWidth + x1) * 4,
         << MagnifyingChannel(x1, g.bufferWidth, g.ratio),
            MagnifyingChannel(y1, g.bufferHeight, g.ratio),
            FZero, FromInt(255) >>,
         g.bufferWidth * g.bufferHeight * 4)

RECURSIVE MagnifyingColumns(_, _, _, _)
MagnifyingColumns(g, y1, lo, hi) ==
  IF hi <= lo THEN <<>>
  ELSE IF hi = lo + 1 THEN MagnifyingPixel(g, lo, y1)
  ELSE LET mid == (lo + hi) \div 2
       IN Override(MagnifyingColumns(g, y1, mid, hi), MagnifyingColumns(g, y1, lo, mid))

RECURSIVE MagnifyingRows(_, _, _)
MagnifyingRows(g, lo, hi) ==
  IF hi <= lo THEN <<>>
  ELSE IF hi = lo + 1
    THEN ByRow(MagnifyingColumns(g, lo, 0, g.bufferWidth), g.bufferWidth * 4)
  ELSE LET mid == (lo + hi) \div 2
       IN OverrideRows(MagnifyingRows(g, mid, hi), MagnifyingRows(g, lo, mid))

MagnifyingRaster(g) ==
  [createImageData(g.bufferWidth, g.bufferHeight)
     EXCEPT !.w = MagnifyingRows(g, 0, g.bufferHeight)]

calculateMagnifyingDisplacementMap(c, win) == MagnifyingRaster(MagnifyingGeometry(c, win))

(***************************************************************************)
(* LiquidGlassFilter: the memoised computation of a render                 *)
(***************************************************************************)
\* canvas.toDataURL() after putImageData(imageData, 0, 0): the image's size
\* and its bytes
imageDataToUrl(img) ==
  [ mime |-> "image/png", width |-> img.width, height |-> img.height,
    data |-> [j \in 0..(img.width * img.height * 4 - 1) |-> ByteAt(img, j)] ]

\* x ?? y for an optional x (<<>> when absent)
OrElse(opt, dflt) == IF opt = <<>> THEN dflt ELSE opt[1]

\* the 128 of `samples = 128`, the default the filter relies on
DefaultSamples == 128

\* the bezelWidth the filter passes to calculateRefractionSpecular
FilterSpecularBezel == 50

\* the dependency list of useMemo
FilterDeps(props) ==
  << props.width, props.height, props.radius, props.glassThickness,
     props.bezelWidth, props.refractiveIndex, props.magnifyingScale,
     props.canvasWidth, props.canvasHeight, props.bezelHeightFn, props.dpr >>

FilterDisplacementCall(props, precomputed, maximumDisplacement) ==
  [ fn |-> "calculateDisplacementMap2",
    canvasWidth  |-> OrElse(props.canvasWidth, props.width),
    canvasHeight |-> OrElse(props.canvasHeight, props.height),
    objectWidth |-> props.width, objectHeight |-> props.height,
    radius |-> props.radius, bezelWidth |-> props.bezelWidth,
    maximumDisplacement |-> maximumDisplacement,
    precomputedDisplacementMap |-> precomputed,
    dpr |-> props.dpr ]

FilterSpecularCall(props) ==
  [ fn |-> "calculateRefractionSpecular",
    objectWidth |-> props.width, objectHeight |-> props.height,
    radius |-> props.radius, bezelWidth |-> FilterSpecularBezel,
    specularAngle |-> "default", dpr |-> props.dpr ]

FilterMagnifyingCall(props) ==
  [ fn |-> "calculateMagnifyingDisplacementMap",
    canvasWidth  |-> OrElse(props.canvasWidth, props.width),
    canvasHeight |-> OrElse(props.canvasHeight, props.height) ]

\* the rest of the useMemo callback once map and maximumDisplacement are
\* known; the result holds the URLs
FilterUrls(props, win, precomputed, maximumDisplacement) ==
  [ displacementMapUrl |->
      imageDataToUrl(calculateDisplacementMap2(
        FilterDisplacementCall(props, precomputed, maximumDisplacement), win)),
    specularLayerUrl |->
      imageDataToUrl(calculateRefractionSpecular(FilterSpecularCall(props), win)),
    magnifyingMapUrl |->
      IF props.magnifyingScale # <<>>
      THEN <<imageDataToUrl(
               calculateMagnifyingDisplacementMap(FilterMagnifyingCall(props), win))>>
      ELSE <<>>,
    scale |-> maximumDisplacement ]

FilterFromMap(props, win, precomputed) ==
  FilterUrls(props, win, precomputed, MaxAbs(precomputed))

\* the body of the useMemo callback
FilterMemoBody(props, win) ==
  FilterFromMap(props, win,
    calculateDisplacementMap(FromInt(props.glassThickness), FromInt(props.bezelWidth),
                             OrElse(props.bezelHeightFn, "CONVEX"),
                             props.refractiveIndex, DefaultSamples))

\* useMemo: the stored value is reused while the dependencies are unchanged
useMemo(previous, props, win) ==
  IF previous # <<>> /\ previous[1].deps = FilterDeps(props)
  THEN previous
  ELSE << [deps |-> FilterDeps(props), value |-> FilterMemoBody(props, win)] >>

(***************************************************************************)
(* Bounds of the checked inputs                                            *)
(***************************************************************************)
MaxRadius == 2
MaxFlat == 1
MaxPad == 1
MaxSamples == 3
MaxCanvas == 4
Grid == 4
\* a sample count above 10000, where the last positions lie within 0.0001 of 1
LargeSamples == 12000

\* an optional device pixel ratio: absent, or 1 or 2
Dprs == {<<>>, <<1>>, <<2>>}
\* the host: no window (ratio 1), or a window whose devicePixelRatio is 2
Windows == {<<>>, <<2>>}

\* precomputed sample arrays with the maximumDisplacement their producer
\* passes along
SampleInputs ==
  { [map |-> <<FromInt(3)>>, max |-> FromInt(3)],
    [map |-> <<FromInt(4), FromInt(-2)>>, max |-> FromInt(4)],
    [map |-> <<FZero, FZero>>, max |-> FZero] }

RefractiveIndices == {One, Ratio(3, 2), Ratio(12, 5)}

\* a well-formed bezel: cornerRadius >= bezelWidth > 0
WellFormed(c) == c.radius >= c.bezelWidth /\ c.bezelWidth > 0

DisplacementCalls ==
  { c \in
      { [ fn |-> "calculateDisplacementMap2",
          canvasWidth |-> 2 * r + fw + pw, canvasHeight |-> 2 * r + fh + ph,
          objectWidth |-> 2 * r + fw, objectHeight |-> 2 * r + fh,
          radius |-> r, bezelWidth |-> b,
          maximumDisplacement |-> si.max, precomputedDisplacementMap |-> si.map,
          dpr |-> d ] :
        r \in 1..MaxRadius, b \in 1..MaxRadius, fw \in 0..MaxFlat, fh \in 0..MaxFlat,
        pw \in 0..MaxPad, ph \in 0..MaxPad, si \in SampleInputs, d \in Dprs } :
    WellFormed(c) }

SpecularCalls ==
  { c \in
      { [ fn |-> "calculateRefractionSpecular",
          objectWidth |-> 2 * r + fw, objectHeight |-> 2 * r + fh,
          radius |-> r, bezelWidth |-> b, specularAngle |-> a, dpr |-> d ] :
        r \in 1..(MaxRadius + 1), b \in 1..(MaxRadius + 1),
        fw \in 0..MaxFlat, fh \in 0..MaxFlat, a \in SpecularAngles, d \in Dprs } :
    WellFormed(c) }

MagnifyingCalls ==
  { [ fn |-> "calculateMagnifyingDisplacementMap",
      canvasWidth |-> cw, canvasHeight |-> ch ] :
    cw \in 1..MaxCanvas, ch \in 1..MaxCanvas }

PrecomputeCalls ==
  { [ fn |-> "calculateDisplacementMap",
      glassThickness |-> t, bezelWidth |-> b, bezelHeightFn |-> f,
      refractiveIndex |-> n, samples |-> k ] :
    t \in {0, 110}, b \in {1, 25}, f \in Profiles, n \in RefractiveIndices,
    k \in 0..MaxSamples }
  \cup
  { [ fn |-> "calculateDisplacementMap",
      glassThickness |-> 110, bezelWidth |-> 25, bezelHeightFn |-> "CONVEX",
      refractiveIndex |-> Ratio(3, 2), samples |-> LargeSamples ] }

SurfaceCalls ==
  { [ fn |-> "surfaceFn", bezelHeightFn |-> f, x |-> Ratio(j, Grid) ] :
    f \in Profiles \ {"identity"}, j \in 0..Grid }

FilterRenders ==
  { [ fn |-> "LiquidGlassFilter",
      width |-> w, height |-> 2, radius |-> 1, glassThickness |-> 110,
      bezelWidth |-> 1, refractiveIndex |-> Ratio(3, 2),
      magnifyingScale |-> ms, canvasWidth |-> cw, canvasHeight |-> <<>>,
      bezelHeightFn |-> f, dpr |-> d ] :
    w \in {2, 3}, ms \in {<<>>, <<24>>}, cw \in {<<>>, <<4>>},
    f \in {<<>>, <<"LIP">>}, d \in Dprs }

Rasterizers ==
  { "calculateDisplacementMap2", "calculateRefractionSpecular",
    "calculateMagnifyingDisplacementMap" }

(***************************************************************************)
(* The state machine: one call or render at a time                         *)
(***************************************************************************)
VARIABLES
  window,     \* the host: <<>> (no window) or <<devicePixelRatio>>
  call,       \* the function invoked and its arguments
  pc,         \* "ready", "sampling", "raster" or "done"
  runs,       \* which invocation with these arguments this is (1 or 2)
  i,          \* the loop index of a call executed step by step
  map,        \* the sample array (being) returned by calculateDisplacementMap
  probes,     \* per sample, the points at which the profile was evaluated
  imageData,  \* the ImageData (being) returned by a rasterizer
  prior,      \* <<the ImageData the first invocation returned>>
  height,     \* <<the value a profile returned>>
  memo        \* the useMemo cell of the filter

vars == <<window, call, pc, runs, i, map, probes, imageData, prior, height, memo>>

NoImage == createImageData(0, 0)

Fresh ==
  /\ pc = "ready" /\ runs = 1 /\ i = 0 /\ map = <<>> /\ probes = <<>>
  /\ imageData = NoImage /\ prior = <<>> /\ height = <<>> /\ memo = <<>>

Init ==
  /\ Fresh
  /\ \/ call \in SurfaceCalls /\ window = <<>>
     \/ call \in PrecomputeCalls /\ window = <<>>
     \/ call \in MagnifyingCalls /\ window \in Windows
     \/ call \in SpecularCalls /\ window \in Windows
     \/ call \in FilterRenders /\ window \in Windows
     \/ call \in DisplacementCalls /\ window \in Windows

\* SurfaceFnDef.fn(x)
EvalSurface ==
  /\ pc = "ready" /\ call.fn = "surfaceFn"
  /\ height' = <<bezelHeightFn(call.bezelHeightFn, call.x)>>
  /\ pc' = "done"
  /\ UNCHANGED <<window, call, runs, i, map, probes, imageData, prior, memo>>

Precompute ==
  /\ pc = "ready" /\ call.fn = "calculateDisplacementMap"
  /\ \E all \in { Samples(FromInt(call.glassThickness), FromInt(call.bezelWidth),
                          call.bezelHeightFn, call.refractiveIndex, call.samples) } :
       /\ map' = SampleValues(all)
       /\ probes' = [n \in DOMAIN all |->
                       [x |-> all[n].x, x2 |-> all[n].x2, ry |-> all[n].ry]]
  /\ pc' = "done"
  /\ UNCHANGED <<window, call, runs, i, imageData, prior, height, memo>>

RasterDisplacement ==
  /\ pc = "ready" /\ call.fn = "calculateDisplacementMap2"
  /\ imageData' = calculateDisplacementMap2(call, window)
  /\ pc' = "done"
  /\ UNCHANGED <<window, call, runs, i, map, probes, prior, height, memo>>

RasterSpecular ==
  /\ pc = "ready" /\ call.fn = "calculateRefractionSpecular"
  /\ imageData' = calculateRefractionSpecular(call, window)
  /\ pc' = "done"
  /\ UNCHANGED <<window, call, runs, i, map, probes, prior, height, memo>>

RasterMagnifying ==
  /\ pc = "ready" /\ call.fn = "calculateMagnifyingDisplacementMap"
  /\ imageData' = calculateMagnifyingDisplacementMap(call, window)
  /\ pc' = "done"
  /\ UNCHANGED <<window, call, runs, i, map, probes, prior, height, memo>>

\* one render of LiquidGlassFilter with the props in `call`
Render ==
  /\ pc = "ready" /\ call.fn = "LiquidGlassFilter"
  /\ memo' = useMemo(memo, call, window)
  /\ pc' = "done"
  /\ UNCHANGED <<window, call, runs, i, map, probes, imageData, prior, height>>

\* between two calls the page moves to a display with another ratio
HostChange ==
  /\ pc = "done" /\ runs = 1
  /\ call.fn \in Rasterizers \cup {"LiquidGlassFilter"}
  /\ window' \in Windows \ {window}
  /\ UNCHANGED <<call, pc, runs, i, map, probes, imageData, prior, height, memo>>

\* the same function is invoked again with the same argument list (the
\* filter: rendered again with the same props)
Reinvoke ==
  /\ pc = "done" /\ runs = 1
  /\ call.fn \in Rasterizers \cup {"LiquidGlassFilter"}
  /\ prior' = IF call.fn \in Rasterizers THEN <<imageData>> ELSE prior
  /\ imageData' = NoImage
  /\ pc' = "ready"
  /\ runs' = 2
  /\ UNCHANGED <<window, call, i, map, probes, height, memo>>

Next ==
  \/ EvalSurface
  \/ Precompute
  \/ RasterDisplacement
  \/ RasterSpecular
  \/ RasterMagnifying
  \/ Render
  \/ HostChange
  \/ Reinvoke

Spec == Init /\ [][Next]_vars

(***************************************************************************)
(* The demo scenario of App.tsx: the filter's precomputation, one sample   *)
(* per step, then its maximum and the displacement raster                  *)
(***************************************************************************)
\* <LiquidGlassFilter width={200} height={200} radius={50} ... /> ; the page
\* passes no dpr, a caller on a display of ratio 1 may pass 1
DemoProps ==
  { [ fn |-> "LiquidGlassFilter",
      width |-> 200, height |-> 200, radius |-> 50, glassThickness |-> 110,
      bezelWidth |-> 25, refractiveIndex |-> Ratio(3, 2),
      magnifyingScale |-> <<>>, canvasWidth |-> <<>>, canvasHeight |-> <<>>,
      bezelHeightFn |-> <<>>, dpr |-> d ] : d \in {<<>>, <<1>>} }

DemoInit ==
  /\ call \in DemoProps /\ window = <<>>
  /\ pc = "sampling" /\ runs = 1 /\ i = 0 /\ map = <<>> /\ probes = <<>>
  /\ imageData = NoImage /\ prior = <<>> /\ height = <<>> /\ memo = <<>>

\* one call of the Array.from callback
DemoSample ==
  /\ pc = "sampling" /\ i < DefaultSamples
  /\ map' = Append(map, SampleAt(FromInt(call.glassThickness), FromInt(call.bezelWidth),
                                 OrElse(call.bezelHeightFn, "CONVEX"),
                                 call.refractiveIndex, DefaultSamples, i).value)
  /\ i' = i + 1
  /\ UNCHANGED <<window, call, pc, runs, probes, imageData, prior, height, memo>>

\* the rest of the filter's computation of the displacement map:
\* maximumDisplacement is taken and calculateDisplacementMap2 is called
DemoRaster ==
  /\ pc = "sampling" /\ i = DefaultSamples
  /\ call' = FilterDisplacementCall(call, map, MaxAbs(map))
  /\ imageData' = calculateDisplacementMap2(
                     FilterDisplacementCall(call, map, MaxAbs(map)), window)
  /\ pc' = "done"
  /\ UNCHANGED <<window, runs, i, map, probes, prior, height, memo>>

DemoNext == DemoSample \/ DemoRaster

DemoSpec == DemoInit /\ [][DemoNext]_vars

(***************************************************************************)
(* Re-renders of LiquidGlassFilter: the parent renders the filter again,   *)
(* with the same props or with one prop changed, on a host whose ratio may *)
(* have changed in between                                                 *)
(***************************************************************************)
MemoRenders ==
  { props \in FilterRenders : props.width = 2 /\ props.bezelHeightFn = <<>> }

MemoInit == Fresh /\ call \in MemoRenders /\ window \in Windows

\* the parent renders the filter again with one prop changed
PropsChange ==
  /\ pc = "done" /\ runs = 1
  /\ call.fn = "LiquidGlassFilter"
  /\ \E props \in MemoRenders :
       /\ Cardinality({f \in {"magnifyingScale", "canvasWidth", "dpr"} :
                         props[f] # call[f]}) = 1
       /\ call' = props
  /\ pc' = "ready"
  /\ runs' = 2
  /\ UNCHANGED <<window, i, map, probes, imageData, prior, height, memo>>

MemoNext ==
  \/ Render
  \/ HostChange
  \/ Reinvoke
  \/ PropsChange

MemoSpec == MemoInit /\ [][MemoNext]_vars

(***************************************************************************)
(* Properties                                                              *)
(***************************************************************************)
\* the device pixel ratio a finished rasterizer call worked with, read off
\* the buffer it returned
RatioUsed(logicalWidth) == imageData.width \div logicalWidth

\* the offset of device pixel p from the centre of the nearest corner along
\* one axis of an object `size` wide with corner radius r: 0 between the
\* corners
OffsetFromCorner(p, r, size) ==
  IF p < r THEN p - r ELSE IF p >= size - r THEN p - (size - r) ELSE 0

DistanceSquared(x1, y1, r, w, h) ==
  OffsetFromCorner(x1, r, w) * OffsetFromCorner(x1, r, w)
  + OffsetFromCorner(y1, r, h) * OffsetFromCorner(y1, r, h)

\* the bytes the loop of a finished rasterizer call stored into
WrittenBytes == UNION {DOMAIN imageData.w[r] : r \in DOMAIN imageData.w}

Columns == 0..(imageData.width - 1)
Lines == 0..(imageData.height - 1)

DisplacementDone == pc = "done" /\ call.fn = "calculateDisplacementMap2"

\* C1 as claimed: a displacement raster with cornerRadius >= bezelWidth > 0
\* (equality included), dpr = 1, canvas = object and samples whose largest
\* magnitude is not 0 holds exactly
\* (128,128,0,255) in every flat-interior pixel and in every pixel farther
\* than r + 1 from the centre of its corner.
C1_NeutralOutsideBand ==
  (/\ DisplacementDone
   /\ call.canvasWidth = call.objectWidth /\ call.canvasHeight = call.objectHeight
   /\ ~IsZero(call.maximumDisplacement)
   /\ imageData.width = call.canvasWidth /\ imageData.height = call.canvasHeight)
  => \A x1 \in Columns, y1 \in Lines :
       (\/ /\ x1 >= call.radius /\ x1 < call.objectWidth - call.radius
           /\ y1 >= call.radius /\ y1 < call.objectHeight - call.radius
        \/ DistanceSquared(x1, y1, call.radius, call.objectWidth, call.objectHeight)
             > (call.radius + 1) * (call.radius + 1))
       => PixelAt(imageData, x1, y1) = <<128, 128, 0, 255>>

\* C1, the failing case reached: cornerRadius = bezelWidth = 1, a 3 x 3 object
\* on a 3 x 3 canvas at ratio 1, whose flat-interior pixel (1,1) holds
\* (0,0,0,255)
C1_FlatInteriorOverwritten ==
  /\ DisplacementDone
  /\ call.radius = 1 /\ call.bezelWidth = 1
  /\ call.objectWidth = 3 /\ call.objectHeight = 3
  /\ call.canvasWidth = 3 /\ call.canvasHeight = 3
  /\ imageData.width = 3 /\ imageData.height = 3
  /\ ~IsZero(call.maximumDisplacement)
  /\ PixelAt(imageData, 1, 1) = <<0, 0, 0, 255>>

\* C2: in the demo scenario (object = canvas = 200 x 200, radius 50, bezel
\* 25, ratio 1, the 128 convex-squircle samples for refractive index 1.5 and
\* their largest magnitude) the returned buffer is 200 x 200, pixel (5,100)
\* has R # 128 and pixel (100,100) is (128,128,0,255).
C2_DemoPixels ==
  pc = "done" =>
    /\ imageData.width = 200 /\ imageData.height = 200
    /\ PixelAt(imageData, 5, 100)[1] # 128
    /\ PixelAt(imageData, 100, 100) = <<128, 128, 0, 255>>

\* C2's case: the demo raster has returned, built from 128 samples whose
\* largest magnitude is not 0, and its loop has stored into pixel (5,100)
C2_DemoReturned ==
  /\ pc = "done" /\ call.fn = "calculateDisplacementMap2"
  /\ Len(call.precomputedDisplacementMap) = 128
  /\ call.maximumDisplacement = MaxAbs(map) /\ ~IsZero(call.maximumDisplacement)
  /\ call.objectWidth = 200 /\ call.radius = 50 /\ call.bezelWidth = 25
  /\ ((100 * 200 + 5) * 4) \in WrittenBytes

\* byte j belongs to a pixel of the object rectangle centred in the canvas
\* (twice the centring offset is objectX2, so that halves stay integers)
InObjectRectangle(j, objectX2, objectY2, objectWidth_, objectHeight_) ==
  LET px == (j \div 4) % imageData.width
      py == (j \div 4) \div imageData.width
  IN /\ 2 * px >= objectX2 /\ 2 * px < objectX2 + 2 * objectWidth_
     /\ 2 * py >= objectY2 /\ 2 * py < objectY2 + 2 * objectHeight_

\* C3 as claimed: whatever the canvas (>= object, odd differences included),
\* every pixel of the displacement raster has B = 0 and A = 255 and the loop
\* stored only into pixels of the centred object rectangle.
C3_ChannelsAligned ==
  DisplacementDone =>
    /\ \A x1 \in Columns, y1 \in Lines :
         PixelAt(imageData, x1, y1)[3] = 0 /\ PixelAt(imageData, x1, y1)[4] = 255
    /\ \A j \in WrittenBytes :
         InObjectRectangle(j,
           imageData.width - call.objectWidth * RatioUsed(call.canvasWidth),
           imageData.height - call.objectHeight * RatioUsed(call.canvasWidth),
           call.objectWidth * RatioUsed(call.canvasWidth),
           call.objectHeight * RatioUsed(call.canvasWidth))

\* C3, the failing case reached: a canvas one pixel wider than the object,
\* where the first pixel of the buffer received a red value in its blue byte
C3_OddPadShiftsChannels ==
  /\ DisplacementDone
  /\ call.canvasWidth = call.objectWidth + 1 /\ call.canvasHeight = call.objectHeight
  /\ imageData.width = call.canvasWidth
  /\ PixelAt(imageData, 0, 0)[3] # 0

\* C4 as claimed: the second of two invocations of a rasterizer with the same
\* argument list returns a buffer equal to the first one's in dimensions and
\* in every byte, whatever window.devicePixelRatio was at either call.
C4_SameArgumentsSameBuffer ==
  (pc = "done" /\ runs = 2 /\ call.fn \in Rasterizers) => imageData = prior[1]

\* C4, the failing case reached: calculateMagnifyingDisplacementMap called
\* twice with the same arguments returned buffers of different widths
C4_MagnifierFollowsHost ==
  /\ pc = "done" /\ runs = 2 /\ call.fn = "calculateMagnifyingDisplacementMap"
  /\ imageData.width # prior[1].width

PrecomputeDone == pc = "done" /\ call.fn = "calculateDisplacementMap"

\* 0 <= a <= 1
InUnit(a) == Le(FZero, a) /\ Le(a, One)

\* C5: calculateDisplacementMap returns exactly sampleCount entries, and
\* entry i is the callback's value at x = i / sampleCount, a position in
\* [0, 1) that never reaches 1.
C5_LengthAndPositions ==
  PrecomputeDone =>
    /\ Len(map) = call.samples
    /\ Len(probes) = call.samples
    /\ \A n \in 1..call.samples :
         /\ probes[n].x = Div(FromInt(n - 1), FromInt(call.samples))
         /\ Le(FZero, probes[n].x) /\ Lt(probes[n].x, One)
         /\ map[n] = SampleFrom(FromInt(call.glassThickness), FromInt(call.bezelWidth),
                                call.bezelHeightFn, Div(One, call.refractiveIndex),
                                probes[n].x).value

\* C5's case: a call with three samples has returned; the last one was taken
\* at 2/3
C5_ThreeSamples ==
  /\ PrecomputeDone /\ call.samples = 3
  /\ Len(map) = 3 /\ probes[3].x = Ratio(2, 3)

\* C6: for refractiveIndex >= 1 and profile heights in [0,1] every entry is 0
\* or finite, no sample meets total internal reflection's null without being
\* 0, and the refracted ray's vertical component is finite and not 0.
C6_EntriesFinite ==
  (PrecomputeDone /\ Ge(call.refractiveIndex, One)) =>
    \A n \in 1..call.samples :
      (/\ InUnit(bezelHeightFn(call.bezelHeightFn, probes[n].x))
       /\ InUnit(bezelHeightFn(call.bezelHeightFn, probes[n].x2)))
      => /\ IsFinite(map[n])
         /\ probes[n].ry = <<>> => IsZero(map[n])
         /\ probes[n].ry # <<>> => IsFinite(probes[n].ry[1]) /\ ~IsZero(probes[n].ry[1])

\* C6's case: the convex squircle at refractive index 1.5 with three samples;
\* the second sample is a refracted, non-zero displacement
C6_RefractedSample ==
  /\ PrecomputeDone /\ call.samples = 3
  /\ call.bezelHeightFn = "CONVEX" /\ call.refractiveIndex = Ratio(3, 2)
  /\ probes[2].ry # <<>> /\ IsFinite(map[2]) /\ ~IsZero(map[2])

SpecularDone == pc = "done" /\ call.fn = "calculateRefractionSpecular"

\* C7: in a specular raster every pixel whose squared distance from the
\* centre of its corner is below (r - bezel)^2 or above (r + dpr)^2, in
\* device pixels, is (0,0,0,0).
C7_TransparentOutsideBand ==
  SpecularDone =>
    \A x1 \in Columns, y1 \in Lines :
      LET d  == RatioUsed(call.objectWidth)
          d2 == DistanceSquared(x1, y1, call.radius * d, imageData.width, imageData.height)
      IN (\/ d2 < (call.radius * d - call.bezelWidth * d) * (call.radius * d - call.bezelWidth * d)
          \/ d2 > (call.radius * d + d) * (call.radius * d + d))
         => PixelAt(imageData, x1, y1) = <<0, 0, 0, 0>>

\* C7's case: a specular raster at ratio 2 with radius 2 and bezel 1, where
\* pixel (3,3), one device pixel from its corner's centre, lies inside the
\* inner edge and a pixel of the band has become visible
C7_BandAndInterior ==
  /\ SpecularDone /\ call.radius = 2 /\ call.bezelWidth = 1
  /\ imageData.width = 2 * call.objectWidth
  /\ DistanceSquared(3, 3, 4, imageData.width, imageData.height) = 2
  /\ PixelAt(imageData, 3, 3) = <<0, 0, 0, 0>>
  /\ \E x1 \in Columns, y1 \in Lines : PixelAt(imageData, x1, y1)[4] > 0

MagnifyingDone == pc = "done" /\ call.fn = "calculateMagnifyingDisplacementMap"

\* 1 + 254 / length rounded to the nearest integer, ties to even: the byte
\* of the last pixel of an axis that is `length` pixels long
LastByte(length) ==
  LET q   == (length + 254) \div length
      rem == (length + 254) % length
  IN IF 2 * rem > length \/ (2 * rem = length /\ q % 2 = 1) THEN q + 1 ELSE q

RenderDone == pc = "done" /\ call.fn = "LiquidGlassFilter" /\ memo # <<>>

\* C9 as claimed: whenever the filter builds a magnifying map, for a dpr prop
\* d that map is canvasWidth * d by canvasHeight * d pixels and has the pixel
\* dimensions of the displacement map of the same render.
C9_MagnifierSharesRatio ==
  (RenderDone /\ memo[1].value.magnifyingMapUrl # <<>>) =>
    /\ memo[1].value.magnifyingMapUrl[1].width = memo[1].value.displacementMapUrl.width
    /\ memo[1].value.magnifyingMapUrl[1].height = memo[1].value.displacementMapUrl.height
    /\ call.dpr # <<>> =>
         /\ memo[1].value.magnifyingMapUrl[1].width
              = OrElse(call.canvasWidth, call.width) * call.dpr[1]
         /\ memo[1].value.magnifyingMapUrl[1].height
              = OrElse(call.canvasHeight, call.height) * call.dpr[1]

\* C9, the failing case reached: a render with dpr = 2 on a host of ratio 1
\* whose magnifying map is half as wide as its displacement map
C9_MagnifierIgnoresDprProp ==
  /\ RenderDone /\ call.dpr = <<2>> /\ memo[1].value.magnifyingMapUrl # <<>>
  /\ 2 * memo[1].value.magnifyingMapUrl[1].width = memo[1].value.displacementMapUrl.width

SurfaceDone(name) == pc = "done" /\ call.fn = "surfaceFn" /\ call.bezelHeightFn = name

\* w(x) = 6x^5 - 15x^4 + 10x^3, evaluated left to right
Quintic(x) ==
  Add(Sub(Mul(FromInt(6), Mul(Mul(Mul(x, x), Mul(x, x)), x)),
          Mul(FromInt(15), Mul(Mul(x, x), Mul(x, x)))),
      Mul(FromInt(10), Mul(Mul(x, x), x)))

\* C10 as amended: lip(x) = convexSquircle(2x) * (1 - w(x)) +
\* (concave(x) + 0.1) * w(x) with w the quintic; w(0) = 0 and w(1) = 1;
\* lip(0) = 0 and lip(1) = 0.1, both within [0,1].
C10_LipBlendsRaisedConcave ==
  SurfaceDone("LIP") =>
    /\ height[1] = Add(Mul(CONVEX(Mul(call.x, FromInt(2))), Sub(One, Quintic(call.x))),
                       Mul(Add(CONCAVE(call.x), Ratio(1, 10)), Quintic(call.x)))
    /\ call.x = FZero => Quintic(call.x) = FZero /\ height[1] = FZero
    /\ call.x = One => Quintic(call.x) = One /\ height[1] = Ratio(1, 10)
    /\ (call.x = FZero \/ call.x = One) => InUnit(height[1])

\* C10's case: the lip profile evaluated at x = 1 returned 0.1
C10_LipAtOne ==
  SurfaceDone("LIP") /\ call.x = One /\ height = <<Ratio(1, 10)>>

\* C10 as claimed: lip(x) = convexSquircle(2x) * (1 - w(x)) + concave(x) * w(x),
\* so that lip(0) = 0 and lip(1) = concave(1) = 0.
C10_LipBlendsConcave ==
  SurfaceDone("LIP") =>
    /\ height[1] = Add(Mul(CONVEX(Mul(call.x, FromInt(2))), Sub(One, Quintic(call.x))),
                       Mul(CONCAVE(call.x), Quintic(call.x)))
    /\ call.x = FZero => height[1] = FZero
    /\ call.x = One => height[1] = FZero


\* the object's size and corner radius in device pixels, for a finished
\* displacement raster
ObjectColumns == 0..(call.objectWidth * RatioUsed(call.canvasWidth) - 1)
ObjectLines == 0..(call.objectHeight * RatioUsed(call.canvasWidth) - 1)
DeviceRadius == call.radius * RatioUsed(call.canvasWidth)
DeviceBezel == call.bezelWidth * RatioUsed(call.canvasWidth)

\* the squared distance of object pixel (x1, y1) from the centre of its corner
ObjectDistanceSquared(x1, y1) ==
  DistanceSquared(x1, y1, DeviceRadius,
                  call.objectWidth * RatioUsed(call.canvasWidth),
                  call.objectHeight * RatioUsed(call.canvasWidth))

\* object pixel (x1, y1) lies in the band (r - bezel)^2 <= d^2 <= (r + 1)^2
InDisplacementBand(x1, y1) ==
  /\ ObjectDistanceSquared(x1, y1) <= (DeviceRadius + 1) * (DeviceRadius + 1)
  /\ ObjectDistanceSquared(x1, y1)
       >= (DeviceRadius - DeviceBezel) * (DeviceRadius - DeviceBezel)

\* between the corner arcs along one axis
BetweenCorners(p, size) == p >= DeviceRadius /\ p < size - DeviceRadius

\* a flat-edge pixel: between the corners along exactly one axis
OnFlatEdge(x1, y1) ==
  BetweenCorners(x1, call.objectWidth * RatioUsed(call.canvasWidth))
    # BetweenCorners(y1, call.objectHeight * RatioUsed(call.canvasWidth))

\* the byte index at which the loop stores the red value of object pixel
\* (x1, y1): ((objectY + y1) * bufferWidth + objectX + x1) * 4
StoreIndex(x1, y1) ==
  ((imageData.height - call.objectHeight * RatioUsed(call.canvasWidth) + 2 * y1)
     * imageData.width
   + imageData.width - call.objectWidth * RatioUsed(call.canvasWidth) + 2 * x1) * 2

\* C11 as amended: the loop of calculateDisplacementMap2 stores into exactly
\* the object pixels of the band, flat-edge pixels included: a flat-edge pixel
\* has a zero offset along its edge only.  When the canvas equals the object
\* and maximumDisplacement is not 0, such a pixel at a non-zero distance
\* from the centre of its corner keeps 128 in the channel of the axis along
\* its edge (R on the top and bottom edges, G on the left and right ones),
\* B = 0 and A = 255.
C11_FlatEdgesInBandWritten ==
  DisplacementDone =>
    /\ WrittenBytes =
         UNION { {StoreIndex(x1, y1) + k : k \in 0..3} :
                 <<x1, y1>> \in {p \in ObjectColumns \X ObjectLines :
                                   InDisplacementBand(p[1], p[2])} }
    /\ (/\ call.canvasWidth = call.objectWidth
        /\ call.canvasHeight = call.objectHeight
        /\ ~IsZero(call.maximumDisplacement))
       => \A x1 \in ObjectColumns, y1 \in ObjectLines :
            (/\ OnFlatEdge(x1, y1) /\ InDisplacementBand(x1, y1)
             /\ ObjectDistanceSquared(x1, y1) > 0) =>
              /\ PixelAt(imageData, x1, y1)[3] = 0
              /\ PixelAt(imageData, x1, y1)[4] = 255
              /\ BetweenCorners(x1, imageData.width) => PixelAt(imageData, x1, y1)[1] = 128
              /\ BetweenCorners(y1, imageData.height) => PixelAt(imageData, x1, y1)[2] = 128

\* C11's case: radius 2, bezel 1, a 5 x 4 object on its own canvas at ratio
\* 1; the top flat-edge pixel (2,0) was written with G = 255
C11_TopEdgeDisplaced ==
  /\ DisplacementDone /\ call.radius = 2 /\ call.bezelWidth = 1
  /\ call.objectWidth = 5 /\ call.objectHeight = 4
  /\ call.canvasWidth = 5 /\ call.canvasHeight = 4
  /\ imageData.width = 5
  /\ ~IsZero(call.maximumDisplacement)
  /\ OnFlatEdge(2, 0) /\ InDisplacementBand(2, 0)
  /\ PixelAt(imageData, 2, 0) = <<128, 255, 0, 255>>

\* C11 as claimed (for radius > bezelWidth, canvas = object and a non-zero
\* maximumDisplacement): every flat-edge pixel is (128,128,0,255), so only
\* pixels of the four corner regions differ from the neutral encoding.
C11_FlatEdgesNeutral ==
  (/\ DisplacementDone
   /\ call.radius > call.bezelWidth
   /\ call.canvasWidth = call.objectWidth /\ call.canvasHeight = call.objectHeight
   /\ ~IsZero(call.maximumDisplacement))
  => \A x1 \in ObjectColumns, y1 \in ObjectLines :
       OnFlatEdge(x1, y1) => PixelAt(imageData, x1, y1) = <<128, 128, 0, 255>>


\* C12 as claimed: with the canvas equal to the object and a non-zero
\* maximumDisplacement, every pixel of the outer anti-alias pad (in the band,
\* farther from the centre of its corner than the radius) has a negative
\* sample index, takes displacement 0 and is encoded (128,128,0,255).
C12_PadNeutral ==
  (/\ DisplacementDone
   /\ call.canvasWidth = call.objectWidth /\ call.canvasHeight = call.objectHeight
   /\ ~IsZero(call.maximumDisplacement))
  => \A x1 \in ObjectColumns, y1 \in ObjectLines :
       (/\ InDisplacementBand(x1, y1)
        /\ ObjectDistanceSquared(x1, y1) > DeviceRadius * DeviceRadius)
       => PixelAt(imageData, x1, y1) = <<128, 128, 0, 255>>

\* C12, the failing case reached: radius = bezelWidth = 1, a 2 x 2 object on
\* its own canvas at ratio 1; the corner pixel (0,0), at distance sqrt(2) > 1
\* from the centre of its corner, was written with the first sample
C12_PadUsesFirstSample ==
  /\ DisplacementDone /\ call.radius = 1 /\ call.bezelWidth = 1
  /\ call.objectWidth = 2 /\ call.objectHeight = 2
  /\ call.canvasWidth = 2 /\ call.canvasHeight = 2
  /\ imageData.width = 2
  /\ ~IsZero(call.maximumDisplacement)
  /\ InDisplacementBand(0, 0) /\ ObjectDistanceSquared(0, 0) = 2
  /\ PixelAt(imageData, 0, 0) = <<181, 181, 0, 255>>


\* the specular layer built from the caller's own bezelWidth
SpecularFromProps ==
  imageDataToUrl(calculateRefractionSpecular(
    [ fn |-> "calculateRefractionSpecular",
      objectWidth |-> call.width, objectHeight |-> call.height,
      radius |-> call.radius, bezelWidth |-> call.bezelWidth,
      specularAngle |-> "default", dpr |-> call.dpr ], window))

\* C13 as claimed: the filter passes its bezelWidth prop to
\* calculateRefractionSpecular, so that (for an explicit dpr) the specular
\* layer of a render is the one built from the caller's bezel geometry.
C13_SpecularUsesBezelProp ==
  (RenderDone /\ call.dpr # <<>>) =>
    /\ FilterSpecularCall(call).bezelWidth = call.bezelWidth
    /\ memo[1].value.specularLayerUrl = SpecularFromProps

\* C13, the failing case reached: a render with radius 1, bezelWidth 1 and
\* dpr 2 whose specular layer is transparent in every pixel, while the layer
\* built from the bezelWidth prop has a visible pixel
C13_SpecularBandEmpty ==
  /\ RenderDone /\ call.dpr = <<2>> /\ call.radius = 1 /\ call.bezelWidth = 1
  /\ FilterSpecularCall(call).bezelWidth = 50
  /\ \A j \in DOMAIN memo[1].value.specularLayerUrl.data :
       memo[1].value.specularLayerUrl.data[j] = 0
  /\ \E j \in DOMAIN SpecularFromProps.data : SpecularFromProps.data[j] > 0


\* C14 as claimed: for every sampleCount >= 1 and every index both points at
\* which calculateDisplacementMap calls bezelHeightFn, x and x + dx, lie in
\* [0,1], also when sampleCount exceeds 10000.
C14_ProfileArgumentsInUnit ==
  (PrecomputeDone /\ call.samples >= 1) =>
    \A n \in 1..call.samples : InUnit(probes[n].x) /\ InUnit(probes[n].x2)

\* C14, the failing case reached: a call with more than 10000 samples has
\* returned; its last sample was taken at x < 1 and called the profile at
\* x + 0.0001 > 1
C14_ProfileCalledPastOne ==
  /\ PrecomputeDone /\ call.samples > 10000
  /\ Lt(probes[call.samples].x, One)
  /\ probes[call.samples].x2 = Add(probes[call.samples].x, Ratio(1, 10000))
  /\ Lt(One, probes[call.samples].x2)


\* the ratio, the corner radius in device pixels and a pixel's squared
\* distance from the centre of its corner, for a finished specular raster
SpecularRatio == RatioUsed(call.objectWidth)
SpecularRadius == call.radius * SpecularRatio
SpecularDistanceSquared(x1, y1) ==
  DistanceSquared(x1, y1, SpecularRadius, imageData.width, imageData.height)

\* r - 2 * dpr <= d < r, on squared distances
WithinRim(d2) ==
  /\ d2 < SpecularRadius * SpecularRadius
  /\ \/ SpecularRadius - 2 * SpecularRatio <= 0
     \/ d2 >= (SpecularRadius - 2 * SpecularRatio) * (SpecularRadius - 2 * SpecularRatio)

AllSamplesZero ==
  \A n \in DOMAIN call.precomputedDisplacementMap :
    IsZero(call.precomputedDisplacementMap[n])

\* C16 as claimed: when every looked-up displacement is 0 (here: every sample
\* is 0, so that maximumDisplacement = max |sample| = 0), each band pixel at
\* a non-zero distance from the centre of its corner is written
\* (128,128,0,255).
C16_ZeroDisplacementNeutral ==
  (/\ DisplacementDone
   /\ call.canvasWidth = call.objectWidth /\ call.canvasHeight = call.objectHeight
   /\ AllSamplesZero
   /\ call.maximumDisplacement = MaxAbs(call.precomputedDisplacementMap))
  => \A x1 \in ObjectColumns, y1 \in ObjectLines :
       (InDisplacementBand(x1, y1) /\ ObjectDistanceSquared(x1, y1) > 0)
       => PixelAt(imageData, x1, y1) = <<128, 128, 0, 255>>

\* C16, the failing case reached: samples [0,0] with maximumDisplacement 0,
\* radius 2, bezel 1, a 4 x 4 object on its own canvas at ratio 1; the band
\* pixel (0,1), at squared distance 5, was written (0,0,0,255)
C16_ZeroMaximumBlackens ==
  /\ DisplacementDone /\ call.radius = 2 /\ call.bezelWidth = 1
  /\ call.objectWidth = 4 /\ call.objectHeight = 4
  /\ call.canvasWidth = 4 /\ call.canvasHeight = 4
  /\ imageData.width = 4
  /\ AllSamplesZero /\ IsZero(call.maximumDisplacement)
  /\ InDisplacementBand(0, 1) /\ ObjectDistanceSquared(0, 1) = 5
  /\ PixelAt(imageData, 0, 1) = <<0, 0, 0, 255>>


\* the filter has just been rendered for the second time
RenderedAgain == RenderDone /\ runs = 2

\* C17 as claimed: after a second render, with the props changed or not, what
\* the filter uses (the three image URLs and the scale) equals what the
\* useMemo body computes from scratch for the current props.
C17_MemoNeverStale ==
  RenderedAgain => memo[1].value = FilterMemoBody(call, window)

\* C17, the failing case reached: the filter was rendered twice with the same
\* props and no dpr; the host's ratio became 2 in between, and the second
\* render still uses the displacement map built for ratio 1
C17_StaleAfterHostChange ==
  /\ RenderedAgain /\ call.dpr = <<>> /\ window = <<2>>
  /\ memo[1].deps = FilterDeps(call)
  /\ memo[1].value.displacementMapUrl.width = OrElse(call.canvasWidth, call.width)
  /\ FilterMemoBody(call, window).displacementMapUrl.width
       = 2 * OrElse(call.canvasWidth, call.width)

====
